---- MODULE Spec2Model ----
(***************************************************************************)
(* Watercryst BIOCAT integration: the API client (api.py), its token       *)
(* handling, the aggregating fetch get_all_data, the polling coordinator   *)
(* (__init__.py) and the command entities (switch.py, button.py).          *)
(*                                                                         *)
(* The client is asyncio code: a coroutine runs without interruption from  *)
(* one "await self._session.request(...)" to the next.  Each action below  *)
(* is one such uninterrupted stretch: the arrival of a response and all    *)
(* the code that runs until the next HTTP request is issued or the         *)
(* operation returns.                                                      *)
(***************************************************************************)
EXTENDS Integers, Sequences, FiniteSets, TLC

\* ------------------------------------------------------------------ bounds

\* Number of distinct token values the backend hands out.
MaxTok == 2

\* The idle time since the last completed request is measured up to this cap.
MaxIdle == 1

\* Number of entries of the endpoints dict a poll cycle is followed through
\* (at least 2, at most all 7).
MaxCat == 2

\* The smallest positive spacing a throttle could be configured with.
MinDelay == 1

\* ------------------------------------------------------------- vocabulary

\* self._access_token / self._refresh_token = None
NoToken == 0

Tokens == 1..MaxTok

\* A request without an Authorization header.
NoHeader == -1

\* A response body without the "refresh_token" key, for which
\* data.get("refresh_token", default) returns the default; NoToken in that
\* field is a key that is present with the value null.
NoKey == -2

\* The two coroutines that use one client at the same time: the
\* coordinator's poll cycle and a command issued by a switch or button.
Tasks == {"poll", "cmd"}

\* The endpoints dict of get_all_data, in its insertion order.
Endpoints ==
  <<"state", "measurements", "absence", "leakage_protection",
    "selftest", "water_supply", "statistics">>

\* The entries of it the model iterates over, in the dict's order: the
\* first MaxCat - 1 of them and the last one, get_statistics.
Categories ==
  SubSeq(Endpoints, 1, MaxCat - 1) \o <<Endpoints[Len(Endpoints)]>>

NumCat == Len(Categories)

CategorySet == { Categories[i] : i \in 1..NumCat }

\* The client methods the switches and buttons call.
Commands ==
  {"set_absence", "set_leakage_protection", "start_selftest", "acknowledge_event"}

\* The methods of the client that write to the device: those and
\* set_water_supply_params, which no entity calls.
WriteMethods == Commands \cup {"set_water_supply_params"}

\* The endpoint constant each write method passes to _request.
CommandEndpoint(m) ==
  CASE m = "acknowledge_event" -> "/ackevent"
    [] m = "set_absence" -> "/absence"
    [] m = "set_leakage_protection" -> "/leakageprotection"
    [] m = "start_selftest" -> "/selftest"
    [] m = "set_water_supply_params" -> "/watersupply"

\* Mutant: start_selftest reads the self-test state instead of starting one.
CommandMethodReadsSelftest(m) == IF m = "start_selftest" THEN "GET" ELSE "POST"

\* The HTTP method each write method passes to _request.
CommandMethod(m) == "POST"

\* The endpoint constant of the getter behind each entry of the endpoints
\* dict; the getter appends the device id to it and sends a GET.
GetterEndpoint(c) ==
  CASE c = "state" -> "/state"
    [] c = "measurements" -> "/measurements"
    [] c = "absence" -> "/absence"
    [] c = "leakage_protection" -> "/leakageprotection"
    [] c = "selftest" -> "/selftest"
    [] c = "water_supply" -> "/watersupply"
    [] c = "statistics" -> "/statistics"

\* WatercrystApiError and its two subclasses.
ApiErrors ==
  {"WatercrystApiError", "WatercrystAuthError", "WatercrystConnectionError"}

IsApiError(e) == e \in ApiErrors

\* ------------------------------------------------------------ environment

\* What the session can answer to one HTTP request: a failure of the
\* transport (timeout, connection error) or a response with a status, a
\* body that is JSON or not, and, for the auth endpoints, the token fields
\* of the body (access NoToken: the key is absent or null, which
\* data.get("access_token") does not tell apart; refresh NoKey: the key is
\* absent, NoToken: it is null).
Statuses == {200, 401, 403, 404, 429, 500}

NetFailures == {"timeout", "ClientConnectionError"}

Resp(net, status, json, access, refresh, devices) ==
  [net |-> net, status |-> status, json |-> json,
   access |-> access, refresh |-> refresh, devices |-> devices]

\* Answers of a data or command endpoint.  Only the body of a response
\* below 400 is parsed, so only there it matters whether it is JSON.
DataResponses ==
  { Resp(n, 0, FALSE, NoToken, NoToken, 0) : n \in NetFailures }
  \cup { Resp("ok", s, FALSE, NoToken, NoToken, 0) : s \in Statuses }
  \cup { Resp("ok", 200, TRUE, NoToken, NoToken, 0) }

\* Answers of /auth/login and /auth/refresh.
TokenResponses ==
  DataResponses
  \cup { Resp("ok", 200, TRUE, a, r, 0) :
           a \in 0..MaxTok, r \in {NoKey} \cup (0..MaxTok) }

\* Answers of /devices: the "devices" list is empty (0), or its first entry
\* has an "id" (1) or has none (2).
DeviceResponses ==
  DataResponses
  \cup { Resp("ok", 200, TRUE, NoToken, NoToken, d) : d \in 0..2 }

\* ------------------------------------------------------------- _request

\* lines 458-460: the Authorization header of the first send.
AuthHeader(auth_required, token) ==
  IF auth_required /\ token # NoToken THEN token ELSE NoHeader

\* Mutant: the re-send goes out with the headers of the first send.
RetryHeaderStale(old, token) == old

\* line 479: the header of the re-sent request is rebuilt from the stored
\* access token, whatever it is (0 stands for the text "Bearer None"); old
\* is the header of the first send.
RetryHeader(old, token) == token

\* Mutant: every error status of an authenticated request starts the
\* refresh.
NeedsRefreshAnyError(r, auth_required) ==
  r.net = "ok" /\ r.status >= 400 /\ auth_required

\* Mutant: a 403 answer starts the refresh as a 401 does.
NeedsRefreshOn403(r, auth_required) ==
  r.net = "ok" /\ r.status \in {401, 403} /\ auth_required

\* Mutant: a 401 starts the refresh whether or not the request is an
\* authenticated one.
NeedsRefreshIgnoresAuthRequired(r, auth_required) ==
  r.net = "ok" /\ r.status = 401

\* line 474: a 401 answer to an authenticated request starts the refresh.
NeedsRefresh(r, auth_required) ==
  r.net = "ok" /\ r.status = 401 /\ auth_required

\* Mutant: only 401 is classified as an authentication failure.
RequestOutcomeOnly401(r) ==
  IF r.net # "ok" THEN "WatercrystConnectionError"
  ELSE IF r.status = 401 THEN "WatercrystAuthError"
  ELSE IF r.status >= 400 THEN "WatercrystApiError"
  ELSE IF ~r.json THEN "ContentTypeError"
  ELSE "ok"

\* lines 488-510: what _request ends with for the last response it received.
RequestOutcome(r) ==
  IF r.net # "ok" THEN "WatercrystConnectionError"
  ELSE IF r.status \in {401, 403} THEN "WatercrystAuthError"
  ELSE IF r.status >= 400 THEN "WatercrystApiError"
  ELSE IF ~r.json THEN "ContentTypeError"
  ELSE "ok"

\* ---------------------------------------------- authenticate / refresh

\* lines 112-116: authenticate() turns every WatercrystApiError of the login
\* request into WatercrystAuthError; other exceptions pass through.
LoginRaises(out) ==
  IF IsApiError(out) THEN "WatercrystAuthError" ELSE out

\* Mutant: authenticate() does not look for the access token.
AuthenticateOutcomeUnchecked(r) ==
  IF RequestOutcome(r) # "ok" THEN LoginRaises(RequestOutcome(r)) ELSE "ok"

\* lines 119-126: the outcome of authenticate() after the login response r.
AuthenticateOutcome(r) ==
  IF RequestOutcome(r) # "ok" THEN LoginRaises(RequestOutcome(r))
  ELSE IF r.access = NoToken THEN "WatercrystAuthError"
  ELSE "ok"

\* lines 119-120: the tokens stored after a login response that parsed.
LoginAccess(r, old) == IF RequestOutcome(r) = "ok" THEN r.access ELSE old

LoginRefresh(r, old) ==
  IF RequestOutcome(r) # "ok" THEN old
  ELSE IF r.refresh = NoKey THEN NoToken
  ELSE r.refresh

\* lines 148-149: the tokens stored after a refresh response that parsed.
RefreshAccess(r) == r.access

\* Mutant: the refresh token is read without a default.
RefreshRefreshNoDefault(r, old) ==
  IF r.refresh = NoKey THEN NoToken ELSE r.refresh

\* line 149: data.get("refresh_token", self._refresh_token) keeps the held
\* token only when the key is absent.
RefreshRefresh(r, old) == IF r.refresh = NoKey THEN old ELSE r.refresh

\* Mutant: only a failed connection falls back to the login.
RefreshFallsBackOnConnectionOnly(out) == out = "WatercrystConnectionError"

\* lines 152-154: a refresh request that ends in a WatercrystApiError falls
\* back to authenticate().
RefreshFallsBack(out) == IsApiError(out)

\* ---------------------------------------------------------- get_all_data

\* Mutant: the except clause names one subclass only.
GetAllCatchesConnectionOnly(e) == e = "WatercrystConnectionError"

\* lines 410-418: the except clause around each category fetch.
GetAllCatches(e) == IsApiError(e)

\* Mutant: a category whose fetch failed is fetched again.
NextIndexRepeatsFailed(i, out) == IF out = "ok" THEN i + 1 ELSE i

\* line 409: the for loop goes on with the next entry of the dict, whatever
\* the fetch of entry i ended with.
NextIndex(i, out) == i + 1

\* Mutant: a category whose fetch failed gets no entry.
CategoryValueOmitsFailed(out) == IF out = "ok" THEN "data" ELSE "unset"

\* lines 411 and 418: the entry stored for a category.
CategoryValue(out) == IF out = "ok" THEN "data" ELSE "empty"

\* -------------------------------------------------- _async_update_data

\* lines 195-216: what the coordinator's update ends with when get_all_data
\* raised e ("ok": it returned).
UpdateOutcome(e) ==
  IF e = "ok" THEN "ok"
  ELSE IF e = "WatercrystAuthError" THEN "ConfigEntryAuthFailed"
  ELSE IF IsApiError(e) THEN "UpdateFailed"
  ELSE e

\* ---------------------------------------------- async_setup_entry, flows

\* __init__.py lines 76-87: what async_setup_entry raises when
\* authenticate() raised e.
SetupAuthRaises(e) ==
  IF e = "WatercrystAuthError" THEN "ConfigEntryAuthFailed"
  ELSE IF e = "WatercrystConnectionError" THEN "ConfigEntryNotReady"
  ELSE e

\* __init__.py lines 94-101: what it raises when get_devices() raised e.
SetupDevicesRaises(e) ==
  IF IsApiError(e) THEN "ConfigEntryNotReady" ELSE e

\* __init__.py line 107, async_config_entry_first_refresh: a failed first
\* update ends the setup.
FirstRefreshRaises(u) ==
  IF u = "ConfigEntryAuthFailed" THEN u ELSE "ConfigEntryNotReady"

\* Mutant: an unexpected exception of the validation sets no form error.
FlowErrorUnknownPasses(e) ==
  IF e = "WatercrystAuthError" THEN "invalid_auth"
  ELSE IF e = "WatercrystConnectionError" THEN "cannot_connect"
  ELSE "none"

\* config_flow.py lines 104-119 and 202-208: the form error shown when the
\* validation raised e.
FlowError(e) ==
  IF e = "WatercrystAuthError" THEN "invalid_auth"
  ELSE IF e = "WatercrystConnectionError" THEN "cannot_connect"
  ELSE "unknown"

\* Mutant: the handler catches connection errors only.
HandlerRaisesButConnection(out) ==
  IF out = "ok" \/ out = "WatercrystConnectionError" THEN "none" ELSE out

\* switch.py lines 172-182 and 192-200, button.py lines 153-163: the
\* exception that leaves the handler of a switch or button whose client
\* method ended with out; a WatercrystApiError is caught and logged.
HandlerRaises(out) ==
  IF out = "ok" \/ IsApiError(out) THEN "none" ELSE out

\* Mutant: the handler does not ask the coordinator for a refresh.
RefreshCallsNever(out) == 0

\* switch.py lines 173-176 and 193-194, button.py lines 154-157: the number
\* of coordinator.async_request_refresh() calls of a handler whose client
\* method ended with out; the call follows the awaited write inside the try.
RefreshCalls(out) == IF out = "ok" THEN 1 ELSE 0

\* Mutant: get_devices() stores the first listed device's id whether or not
\* an id is set.
DevicesSetsAlways(r, old) ==
  IF r.devices # 0 THEN (IF r.devices = 1 THEN 1 ELSE 0) ELSE old

\* api.py lines 168-171: the device id get_devices() leaves in the client.
DevicesSets(r, old) ==
  IF r.devices # 0 /\ old = 0 THEN (IF r.devices = 1 THEN 1 ELSE 0) ELSE old

\* ------------------------------------------------------------- hass.data

\* The config entries of the integration: the one the model follows and
\* the entry of a second account.
ThisEntry == "this"

OtherEntry == "other"

\* hass.data without the DOMAIN key.
NoDomain == [key |-> FALSE, entries |-> {}]

\* __init__.py lines 111-115: hass.data.setdefault(DOMAIN, {}) and the
\* assignment of the client/coordinator pair under the entry id.
StoreEntry(hd, id) == [key |-> TRUE, entries |-> hd.entries \cup {id}]

\* Mutant: the pair is removed whether or not the platforms were unloaded.
UnloadDataIgnoresResult(hd, id, unload_ok) ==
  LET rest == hd.entries \ {id} IN
  [key |-> rest # {}, entries |-> rest]

\* __init__.py lines 141-146: after the platforms were unloaded the pair is
\* popped, and the DOMAIN key with it when no entry remains.
UnloadData(hd, id, unload_ok) ==
  LET rest == hd.entries \ {id} IN
  IF unload_ok THEN [key |-> rest # {}, entries |-> rest] ELSE hd

\* ------------------------------------------------------------------ state

VARIABLES
  access_token,         \* WatercrystApiClient._access_token
  refresh_token,        \* WatercrystApiClient._refresh_token
  device_id,            \* WatercrystApiClient._device_id (0: None)
  pc,                   \* per task: the await it is suspended at
  call,                 \* per task: the _request call in progress
  ended,                \* the _request call that ended in the last step
  command,              \* the client method the command task is running
  idx,                  \* get_all_data: position in the endpoints dict
  result,               \* get_all_data: the result dict being built
  rejected,             \* a fetch of this cycle ended in WatercrystAuthError
  issued,               \* get_all_data: the categories requested so far
  data,                 \* coordinator.data, the cached snapshot
  last_update_success,  \* coordinator.last_update_success
  signal,               \* what the last _async_update_data ended with
  refresh_requests,     \* async_request_refresh() calls of the latest command
  not_found,            \* get_statistics of this client was answered 404
  reply,                \* the token response handled in the last step
  phase,                \* which handler of the host the main task runs
  entry_device,         \* entry.data[CONF_DEVICE_ID] (0: key absent)
  setup_result,         \* what the last async_setup_entry ended with
  flow_error,           \* errors["base"] of the form shown (or "none")
  hass_data,            \* hass.data[DOMAIN]: the key and the entry ids in it
  since,                \* time since an HTTP request last completed
  gap                   \* that time when the latest HTTP request was issued

clientVars == <<access_token, refresh_token, device_id>>

cycleVars == <<idx, result, rejected, issued>>

coordVars == <<data, last_update_success, signal>>

hostVars == <<phase, entry_device, setup_result, flow_error, hass_data>>

vars ==
  <<access_token, refresh_token, device_id, pc, call, ended, command, idx,
    result, rejected, issued, data, last_update_success, signal,
    refresh_requests, not_found, reply, phase,
    entry_device, setup_result, flow_error, hass_data, since, gap>>

\* The awaits of _request and of the calls nested in it: the first send
\* (line 466), the refresh request (line 147), the login request (line 113)
\* and the re-send (line 481).
InFlightPcs == {"send1", "refresh", "login", "send2"}

\* A _request call with auth_required=True: the Authorization header of its
\* latest send, how often the request was sent, how often
\* refresh_access_token() was called for it, the access token that call
\* stored, the status of the response that made _request call it
\* (0: it was not called), the HTTP method and the endpoint of the request,
\* and the number of HTTP requests handed to the session for the call, those
\* of refresh_access_token() and authenticate() included.
NewCall(h, m, e) ==
  [hdr |-> h, sends |-> 1, refreshes |-> 0, yielded |-> NoToken, first |-> 0,
   method |-> m, endpoint |-> e, requests |-> 1]

\* No _request call with auth_required=True: the task is idle, or it called
\* authenticate() directly.
NoCall ==
  [hdr |-> NoHeader, sends |-> 0, refreshes |-> 0, yielded |-> NoToken,
   first |-> 0, method |-> "none", endpoint |-> "none", requests |-> 0]

\* authenticate() called directly: its login request is the first one.
LoginCall == [NoCall EXCEPT !.requests = 1]

\* No client operation ended in the last step.
NoEnd ==
  [task |-> "none", outcome |-> "none", status |-> 0, json |-> FALSE,
   sends |-> 0, raised |-> "none"]

\* async_unload_entry returned unload_ok in the last step.
Unloaded(unload_ok) ==
  [NoEnd EXCEPT !.task = "unload",
                !.outcome = IF unload_ok THEN "True" ELSE "False"]

\* The client operation of task t ended with outcome out on response r
\* (status 0: the transport failed), having sent its request sends times;
\* raised is the exception that leaves the caller of a write method: the
\* handler of a switch or button, or, for set_water_supply_params, the
\* method itself.
End(t, out, r) ==
  [task |-> t, outcome |-> out, status |-> r.status, json |-> r.json,
   sends |-> call[t].sends,
   raised |-> IF t # "cmd" \/ out = "ok" THEN "none"
              ELSE IF command \in Commands THEN HandlerRaises(out)
              ELSE out]

\* No login or refresh response was handled in the last step.
NoReply ==
  [task |-> "none", kind |-> "none", outcome |-> "none",
   access |-> NoToken, refresh |-> NoKey]

\* Task t handled the response r of its login or refresh request (kind),
\* for which _request ended with RequestOutcome(r).
Reply(t, kind, r) ==
  [task |-> t, kind |-> kind, outcome |-> RequestOutcome(r),
   access |-> r.access, refresh |-> r.refresh]

\* result: dict[str, Any] = {}
EmptyResult == [c \in CategorySet |-> "unset"]

\* coordinator.data is None: no snapshot was stored yet.
NoData == [c \in CategorySet |-> "None"]

\* WatercrystApiClient.__init__ (lines 79-85) and a new coordinator.
NewClient ==
  /\ access_token' = NoToken
  /\ refresh_token' = NoToken
  /\ device_id' = 0
  /\ not_found' = FALSE
  /\ data' = NoData
  /\ last_update_success' = TRUE
  /\ signal' = "none"

\* No config entry yet: the user form of the config flow is shown.
Init ==
  /\ access_token = NoToken
  /\ refresh_token = NoToken
  /\ device_id = 0
  /\ pc = [t \in Tasks |-> "idle"]
  /\ call = [t \in Tasks |-> NoCall]
  /\ ended = NoEnd
  /\ command = "none"
  /\ idx = 0
  /\ result = EmptyResult
  /\ rejected = FALSE
  /\ issued = <<>>
  /\ data = NoData
  /\ last_update_success = TRUE
  /\ signal = "none"
  /\ refresh_requests = 0
  /\ not_found = FALSE
  /\ reply = NoReply
  /\ phase = "user_form"
  /\ entry_device = 0
  /\ setup_result = "none"
  /\ flow_error = "none"
  /\ hass_data = NoDomain
  /\ since = MaxIdle
  /\ gap = MaxIdle

\* Number of HTTP requests of the one client that are in flight.
InFlight == Cardinality({ t \in Tasks : pc[t] \in InFlightPcs })

\* The tasks that are inside refresh_access_token().
Refreshing == { t \in Tasks : pc[t] \in {"refresh", "login"} }

\* ------------------------------------------------- steps of the handlers

\* Task t hands an HTTP request to the session and suspends at await p
\* (lines 113, 147, 466, 481); the idle time before it is noted.
Send(t, c, p) ==
  /\ pc' = [pc EXCEPT ![t] = p]
  /\ call' = [call EXCEPT ![t] = c]
  /\ gap' = since'

\* Task t has no client operation running any more.
Stop(t) ==
  /\ pc' = [pc EXCEPT ![t] = "idle"]
  /\ call' = [call EXCEPT ![t] = NoCall]
  /\ UNCHANGED gap

\* get_all_data up to the request of its first category (lines 395-411);
\* at is the stored access token.
StartCycle(at) ==
  /\ idx' = 1
  /\ result' = EmptyResult
  /\ rejected' = FALSE
  /\ issued' = <<Categories[1]>>
  /\ Send("poll", NewCall(AuthHeader(TRUE, at), "GET",
                          GetterEndpoint(Categories[1])), "send1")

\* get_devices() up to its request (line 167).
StartDevices(at) ==
  /\ Send("poll", NewCall(AuthHeader(TRUE, at), "GET", "/devices"), "send1")
  /\ UNCHANGED cycleVars

\* HA's DataUpdateCoordinator after _async_update_data ended with u: a
\* returned snapshot replaces the cache, an exception leaves it as it is.
CoordinatorUpdate(u, res) ==
  /\ signal' = u
  /\ last_update_success' = (u = "ok")
  /\ data' = IF u = "ok" THEN res ELSE data

\* The end of a poll cycle whose update ended with u: after the first
\* refresh async_setup_entry (lines 107-118) stores the pair in hass.data and
\* awaits the setup of the platforms, or the exception ends the setup; a
\* later cycle only updates the coordinator.
CycleEnd(u, res) ==
  /\ idx' = 0
  /\ result' = EmptyResult
  /\ issued' = <<>>
  /\ Stop("poll")
  /\ CoordinatorUpdate(u, res)
  /\ UNCHANGED <<device_id, entry_device, flow_error>>
  /\ IF phase = "setup_refresh"
     THEN /\ phase' = IF u = "ok" THEN "setup_platforms" ELSE "entry"
          /\ setup_result' =
               IF u = "ok" THEN setup_result ELSE FirstRefreshRaises(u)
          /\ hass_data' =
               IF u = "ok" THEN StoreEntry(hass_data, ThisEntry) ELSE hass_data
     ELSE UNCHANGED <<phase, setup_result, hass_data>>

\* get_all_data, lines 409-420, from the end of one category's fetch (which
\* ended with out) to the next await: the entry is stored and the next
\* category's request is issued, or the dict is returned to
\* _async_update_data, or the exception leaves get_all_data.
PollComplete(out, at) ==
  LET res == [result EXCEPT ![Categories[idx]] = CategoryValue(out)] IN
  /\ rejected' = (rejected \/ out = "WatercrystAuthError")
  /\ IF out = "ok" \/ GetAllCatches(out)
     THEN IF idx < NumCat
          THEN /\ idx' = NextIndex(idx, out)
               /\ result' = res
               /\ issued' = Append(issued, Categories[idx'])
               /\ Send("poll", NewCall(AuthHeader(TRUE, at), "GET",
                                       GetterEndpoint(Categories[idx'])),
                       "send1")
               /\ UNCHANGED <<device_id, coordVars, hostVars>>
          ELSE CycleEnd(UpdateOutcome("ok"), res)
     ELSE CycleEnd(UpdateOutcome(out), res)

\* async_step_user after authenticate() (config_flow.py lines 98-119).
UserAuthDone(out, at) ==
  /\ UNCHANGED hass_data
  /\ UNCHANGED <<device_id, coordVars, entry_device, setup_result>>
  /\ IF out = "ok"
     THEN /\ StartDevices(at)
          /\ phase' = "user_devices"
          /\ UNCHANGED flow_error
     ELSE /\ Stop("poll")
          /\ phase' = "user_form"
          /\ flow_error' = FlowError(out)
          /\ UNCHANGED cycleVars

\* async_step_user after get_devices() (config_flow.py lines 101-139): the
\* entry is created, with the first device's id if a device is listed.
UserDevicesDone(out, r) ==
  LET e == IF out = "ok" /\ r.devices = 2 THEN "KeyError" ELSE out IN
  /\ UNCHANGED hass_data
  /\ Stop("poll")
  /\ device_id' = IF out = "ok" THEN DevicesSets(r, device_id) ELSE device_id
  /\ UNCHANGED <<coordVars, cycleVars, setup_result>>
  /\ IF e = "ok"
     THEN /\ phase' = "entry"
          /\ entry_device' = r.devices
          /\ flow_error' = "none"
     ELSE /\ phase' = "user_form"
          /\ flow_error' = FlowError(e)
          /\ UNCHANGED entry_device

\* async_step_reauth_confirm after authenticate() (lines 200-217).
ReauthAuthDone(out) ==
  /\ UNCHANGED hass_data
  /\ Stop("poll")
  /\ UNCHANGED <<device_id, coordVars, cycleVars, entry_device>>
  /\ phase' = "entry"
  /\ IF out = "ok"
     THEN /\ setup_result' = "none"
          /\ flow_error' = "none"
     ELSE /\ flow_error' = FlowError(out)
          /\ UNCHANGED setup_result

\* async_setup_entry after authenticate() (__init__.py lines 76-107).
SetupAuthDone(out, at) ==
  /\ UNCHANGED hass_data
  /\ UNCHANGED <<coordVars, entry_device, flow_error>>
  /\ IF out # "ok"
     THEN /\ Stop("poll")
          /\ phase' = "entry"
          /\ setup_result' = SetupAuthRaises(out)
          /\ UNCHANGED <<device_id, cycleVars>>
     ELSE IF entry_device # 0
     THEN /\ device_id' = entry_device
          /\ StartCycle(at)
          /\ phase' = "setup_refresh"
          /\ UNCHANGED setup_result
     ELSE /\ StartDevices(at)
          /\ phase' = "setup_devices"
          /\ UNCHANGED <<device_id, setup_result>>

\* async_setup_entry after get_devices() (__init__.py lines 94-107).
SetupDevicesDone(out, at, r) ==
  /\ UNCHANGED hass_data
  /\ UNCHANGED <<coordVars, entry_device, flow_error>>
  /\ device_id' = IF out = "ok" THEN DevicesSets(r, device_id) ELSE device_id
  /\ IF out = "ok" /\ r.devices # 0
     THEN /\ StartCycle(at)
          /\ phase' = "setup_refresh"
          /\ UNCHANGED setup_result
     ELSE /\ Stop("poll")
          /\ phase' = "entry"
          /\ setup_result' =
               IF out = "ok" THEN "ConfigEntryNotReady"
               ELSE SetupDevicesRaises(out)
          /\ UNCHANGED cycleVars

\* A get_devices() call on the client of the loaded entry ended (lines
\* 167-173).
DevicesCallDone(out, r) ==
  /\ UNCHANGED hass_data
  /\ Stop("poll")
  /\ device_id' = IF out = "ok" THEN DevicesSets(r, device_id) ELSE device_id
  /\ phase' = "loaded"
  /\ UNCHANGED <<coordVars, cycleVars, entry_device, setup_result, flow_error>>

\* switch.py lines 172-182 and button.py lines 153-163, after the client
\* method returned or raised: a refresh is requested after a write that
\* succeeded; a WatercrystApiError is logged.  No entity calls
\* set_water_supply_params, so nothing follows it.
CommandComplete(out) ==
  /\ Stop("cmd")
  /\ command' = "none"
  /\ refresh_requests' =
       IF command \in Commands THEN refresh_requests + RefreshCalls(out)
       ELSE refresh_requests
  /\ UNCHANGED <<device_id, cycleVars, coordVars, hostVars>>

\* api.py lines 347 and 494-498: the response r that ends the operation of
\* task t is a 404 to the request of get_statistics.
StatisticsNotFound(t, r) ==
  /\ t = "poll"
  /\ phase \in {"setup_refresh", "loaded"}
  /\ Categories[idx] = "statistics"
  /\ r.net = "ok"
  /\ r.status = 404

\* The client operation of task t ended with out after response r; the
\* stored access token is at.  What follows is the caller's code up to its
\* next await.
Complete(t, out, at, r) ==
  /\ ended' = End(t, out, r)
  /\ not_found' = (not_found \/ StatisticsNotFound(t, r))
  /\ IF t = "cmd"
     THEN CommandComplete(out)
     ELSE /\ UNCHANGED <<command, refresh_requests>>
          /\ CASE phase = "user_auth" -> UserAuthDone(out, at)
               [] phase = "user_devices" -> UserDevicesDone(out, r)
               [] phase = "reauth_auth" -> ReauthAuthDone(out)
               [] phase = "setup_auth" -> SetupAuthDone(out, at)
               [] phase = "setup_devices" -> SetupDevicesDone(out, at, r)
               [] phase = "devices_call" -> DevicesCallDone(out, r)
               [] OTHER -> PollComplete(out, at)

\* ---------------------------------------------------------------- actions

\* The user submits the form of async_step_user: a client is built from the
\* input and authenticate() runs up to its login request (lines 88-98).
SubmitUser ==
  /\ UNCHANGED hass_data
  /\ phase = "user_form"
  /\ pc["poll"] = "idle"
  /\ NewClient
  /\ phase' = "user_auth"
  /\ flow_error' = "none"
  /\ ended' = NoEnd
  /\ reply' = NoReply
  /\ UNCHANGED since
  /\ Send("poll", LoginCall, "login")
  /\ UNCHANGED <<command, cycleVars, refresh_requests, entry_device,
                 setup_result>>

\* The user submits the form of async_step_reauth_confirm (lines 192-200),
\* shown after a setup ended with ConfigEntryAuthFailed.
SubmitReauth ==
  /\ UNCHANGED hass_data
  /\ phase = "entry"
  /\ setup_result = "ConfigEntryAuthFailed"
  /\ NewClient
  /\ phase' = "reauth_auth"
  /\ flow_error' = "none"
  /\ ended' = NoEnd
  /\ reply' = NoReply
  /\ UNCHANGED since
  /\ Send("poll", LoginCall, "login")
  /\ UNCHANGED <<command, cycleVars, refresh_requests, entry_device,
                 setup_result>>

\* Home Assistant sets the entry up, for the first time or again after
\* ConfigEntryNotReady: async_setup_entry up to the login request
\* (__init__.py lines 66-77).
SetupEntry ==
  /\ UNCHANGED hass_data
  /\ phase = "entry"
  /\ setup_result \in {"none", "ConfigEntryNotReady"}
  /\ NewClient
  /\ phase' = "setup_auth"
  /\ setup_result' = "none"
  /\ ended' = NoEnd
  /\ reply' = NoReply
  /\ UNCHANGED since
  /\ Send("poll", LoginCall, "login")
  /\ UNCHANGED <<command, cycleVars, refresh_requests, entry_device,
                 flow_error>>

\* The coordinator starts a poll cycle (its timer fired, or a refresh was
\* requested): get_all_data runs up to the first category's request.
StartPoll ==
  /\ phase = "loaded"
  /\ pc["poll"] = "idle"
  /\ ended' = NoEnd
  /\ reply' = NoReply
  /\ UNCHANGED not_found
  /\ UNCHANGED refresh_requests
  /\ UNCHANGED since
  /\ StartCycle(access_token)
  /\ UNCHANGED <<clientVars, command, coordVars, hostVars>>

\* get_devices() is called on the client of the loaded entry and runs up to
\* its request (line 167).
CallGetDevices ==
  /\ UNCHANGED hass_data
  /\ phase = "loaded"
  /\ pc["poll"] = "idle"
  /\ phase' = "devices_call"
  /\ ended' = NoEnd
  /\ reply' = NoReply
  /\ UNCHANGED <<not_found, refresh_requests, since>>
  /\ StartDevices(access_token)
  /\ UNCHANGED <<clientVars, command, coordVars, entry_device, setup_result,
                 flow_error>>

\* A switch is turned on or off, or a button is pressed: the client method
\* m runs up to the send of its POST request.
StartCommand(m) ==
  /\ phase = "loaded"
  /\ pc["cmd"] = "idle"
  /\ command' = m
  /\ refresh_requests' = 0
  /\ ended' = NoEnd
  /\ reply' = NoReply
  /\ UNCHANGED not_found
  /\ UNCHANGED since
  /\ Send("cmd", NewCall(AuthHeader(TRUE, access_token), CommandMethod(m),
                         CommandEndpoint(m)), "send1")
  /\ UNCHANGED <<clientVars, cycleVars, coordVars, hostVars>>

\* The first send of task t is answered (lines 473-501).  A 401 enters
\* refresh_access_token() (lines 138-147), which sends the refresh request,
\* or the login request when no refresh token is held.
ReceiveFirst(t, r) ==
  /\ pc[t] = "send1"
  /\ since' = 0
  /\ reply' = NoReply
  /\ UNCHANGED <<access_token, refresh_token>>
  /\ IF NeedsRefresh(r, TRUE)
     THEN /\ Send(t, [call[t] EXCEPT !.refreshes = 1, !.first = r.status,
                                     !.requests = @ + 1],
                  IF refresh_token = NoToken THEN "login" ELSE "refresh")
          /\ ended' = NoEnd
          /\ UNCHANGED <<device_id, command, cycleVars, coordVars,
                         refresh_requests, not_found, hostVars>>
     ELSE Complete(t, RequestOutcome(r), access_token, r)

\* The re-send after the refresh (lines 479-486) is issued; at is the
\* stored access token.
Resend(t, at) ==
  /\ Send(t, [call[t] EXCEPT !.hdr = RetryHeader(call[t].hdr, at),
                             !.sends = 2, !.yielded = at,
                             !.requests = @ + 1], "send2")
  /\ ended' = NoEnd
  /\ UNCHANGED <<device_id, command, cycleVars, coordVars, refresh_requests,
                 not_found, hostVars>>

\* Lines 474-477 inside the _request of a refresh or login request: were
\* its 401 to start a token refresh, refresh_access_token() would send one
\* more refresh request, or login request when no refresh token is held.
NestedRefresh(t) ==
  /\ Send(t, [call[t] EXCEPT !.requests = @ + 1],
          IF refresh_token = NoToken THEN "login" ELSE "refresh")
  /\ ended' = NoEnd
  /\ UNCHANGED <<clientVars, command, cycleVars, coordVars,
                 refresh_requests, not_found, hostVars>>

\* The refresh request of task t, made with auth_required=False, is
\* answered (lines 146-154).
ReceiveRefresh(t, r) ==
  /\ pc[t] = "refresh"
  /\ since' = 0
  /\ reply' = Reply(t, "refresh", r)
  /\ IF NeedsRefresh(r, FALSE)
     THEN NestedRefresh(t)
     ELSE IF RequestOutcome(r) = "ok"
     THEN /\ access_token' = RefreshAccess(r)
          /\ refresh_token' = RefreshRefresh(r, refresh_token)
          /\ Resend(t, RefreshAccess(r))
     ELSE /\ UNCHANGED <<access_token, refresh_token>>
          /\ IF RefreshFallsBack(RequestOutcome(r))
             THEN /\ Send(t, [call[t] EXCEPT !.requests = @ + 1], "login")
                  /\ ended' = NoEnd
                  /\ UNCHANGED <<device_id, command, cycleVars, coordVars,
                                 refresh_requests, not_found, hostVars>>
             ELSE Complete(t, RequestOutcome(r), access_token, r)

\* The login request of task t, made with auth_required=False, is answered
\* (lines 112-126): authenticate() was called by refresh_access_token()
\* (then _request goes on with the re-send) or directly by the setup or a
\* flow.
ReceiveLogin(t, r) ==
  /\ pc[t] = "login"
  /\ since' = 0
  /\ reply' = Reply(t, "login", r)
  /\ IF NeedsRefresh(r, FALSE)
     THEN NestedRefresh(t)
     ELSE /\ access_token' = LoginAccess(r, access_token)
          /\ refresh_token' = LoginRefresh(r, refresh_token)
          /\ IF AuthenticateOutcome(r) = "ok" /\ call[t].sends > 0
             THEN Resend(t, LoginAccess(r, access_token))
             ELSE Complete(t, AuthenticateOutcome(r),
                           LoginAccess(r, access_token), r)

\* The re-sent request of task t is answered (lines 488-510).
ReceiveRetry(t, r) ==
  /\ pc[t] = "send2"
  /\ since' = 0
  /\ reply' = NoReply
  /\ UNCHANGED <<access_token, refresh_token>>
  /\ Complete(t, RequestOutcome(r), access_token, r)

\* Time passes.
Tick ==
  /\ since < MaxIdle
  /\ since' = since + 1
  /\ ended' = NoEnd
  /\ reply' = NoReply
  /\ UNCHANGED not_found
  /\ UNCHANGED <<clientVars, pc, call, command, cycleVars, coordVars,
                 refresh_requests, hostVars, gap>>

\* async_setup_entry from the stored pair to its return (lines 118-121):
\* the platforms are set up and the entry is loaded.
ForwardPlatforms ==
  /\ phase = "setup_platforms"
  /\ phase' = "loaded"
  /\ setup_result' = "True"
  /\ ended' = NoEnd
  /\ reply' = NoReply
  /\ UNCHANGED <<clientVars, pc, call, command, cycleVars, coordVars,
                 refresh_requests, not_found, entry_device, flow_error,
                 hass_data, since, gap>>

\* async_unload_entry of the loaded entry (lines 138-148); unload_ok is
\* what async_unload_platforms returned.  An unloaded entry can be set up
\* again.
UnloadEntry(unload_ok) ==
  /\ phase = "loaded"
  /\ pc["poll"] = "idle"
  /\ hass_data' = UnloadData(hass_data, ThisEntry, unload_ok)
  /\ phase' = IF unload_ok THEN "entry" ELSE phase
  /\ setup_result' = IF unload_ok THEN "none" ELSE setup_result
  /\ ended' = Unloaded(unload_ok)
  /\ reply' = NoReply
  /\ UNCHANGED <<clientVars, pc, call, command, cycleVars, coordVars,
                 refresh_requests, not_found, entry_device, flow_error,
                 since, gap>>

\* async_setup_entry of the second account's entry stores its pair (lines
\* 111-115).
OtherEntrySetup ==
  /\ OtherEntry \notin hass_data.entries
  /\ hass_data' = StoreEntry(hass_data, OtherEntry)
  /\ ended' = NoEnd
  /\ reply' = NoReply
  /\ UNCHANGED <<clientVars, pc, call, command, cycleVars, coordVars,
                 refresh_requests, not_found, phase, entry_device,
                 setup_result, flow_error, since, gap>>

\* async_unload_entry of the second account's entry (lines 138-148).
OtherEntryUnload ==
  /\ OtherEntry \in hass_data.entries
  /\ hass_data' = UnloadData(hass_data, OtherEntry, TRUE)
  /\ ended' = NoEnd
  /\ reply' = NoReply
  /\ UNCHANGED <<clientVars, pc, call, command, cycleVars, coordVars,
                 refresh_requests, not_found, phase, entry_device,
                 setup_result, flow_error, since, gap>>

\* The config flow, the setup and the unload of the entry.
Lifecycle ==
  \/ SubmitUser
  \/ SubmitReauth
  \/ SetupEntry
  \/ ForwardPlatforms
  \/ \E unload_ok \in BOOLEAN : UnloadEntry(unload_ok)

\* The responses to the requests of task t.
Receive(t) ==
  \/ \E r \in DeviceResponses : ReceiveFirst(t, r)
  \/ \E r \in TokenResponses : ReceiveRefresh(t, r)
  \/ \E r \in TokenResponses : ReceiveLogin(t, r)
  \/ \E r \in DataResponses : ReceiveRetry(t, r)

\* The entry from the config flow over its setup to the poll cycles of the
\* loaded coordinator.
Next == Lifecycle \/ StartPoll \/ Receive("poll")

Spec == Init /\ [][Next]_vars

\* The same with the second account's entry being set up and unloaded
\* beside the modelled one.
NextRegistry == Next \/ OtherEntrySetup \/ OtherEntryUnload

SpecRegistry == Init /\ [][NextRegistry]_vars

\* A loaded entry: the setup stored the login's tokens (lines 119-120), the
\* device id, and the snapshot of the first refresh.
InitLoaded ==
  /\ access_token \in Tokens
  /\ refresh_token \in 0..MaxTok
  /\ device_id = 1
  /\ pc = [t \in Tasks |-> "idle"]
  /\ call = [t \in Tasks |-> NoCall]
  /\ ended = NoEnd
  /\ command = "none"
  /\ idx = 0
  /\ result = EmptyResult
  /\ rejected = FALSE
  /\ issued = <<>>
  /\ data \in [CategorySet -> {"data", "empty"}]
  /\ last_update_success = TRUE
  /\ signal = "ok"
  /\ refresh_requests = 0
  /\ not_found = FALSE
  /\ reply = NoReply
  /\ phase = "loaded"
  /\ entry_device = 1
  /\ setup_result = "True"
  /\ flow_error = "none"
  /\ hass_data = StoreEntry(NoDomain, ThisEntry)
  /\ since = MaxIdle
  /\ gap = MaxIdle

\* The command of one switch.
OverlapCommands == {"set_absence"}

\* The loaded entry: poll cycles and the commands of the entities, which
\* run as tasks of their own on the same client.
NextLoaded ==
  \/ StartPoll
  \/ \E m \in OverlapCommands : StartCommand(m)
  \/ \E t \in Tasks : Receive(t)

SpecLoaded == InitLoaded /\ [][NextLoaded]_vars

\* The poll cycles of the loaded entry with the clock.
NextTimed == StartPoll \/ Receive("poll") \/ Tick

SpecTimed == InitLoaded /\ [][NextTimed]_vars

\* A client in use: it holds the tokens of a login and the device id the
\* entry was set up with (0: the first listed device had no id, 1: the id
\* of the device get_devices lists first, 2: the id of another device that
\* was stored in the entry earlier).
InitClient ==
  /\ access_token \in Tokens
  /\ refresh_token \in 0..MaxTok
  /\ device_id \in 0..2
  /\ pc = [t \in Tasks |-> "idle"]
  /\ call = [t \in Tasks |-> NoCall]
  /\ ended = NoEnd
  /\ command = "none"
  /\ idx = 0
  /\ result = EmptyResult
  /\ rejected = FALSE
  /\ issued = <<>>
  /\ data \in [CategorySet -> {"data", "empty"}]
  /\ last_update_success = TRUE
  /\ signal = "ok"
  /\ refresh_requests = 0
  /\ not_found = FALSE
  /\ reply = NoReply
  /\ phase = "loaded"
  /\ entry_device = device_id
  /\ setup_result = "True"
  /\ flow_error = "none"
  /\ hass_data = StoreEntry(NoDomain, ThisEntry)
  /\ since = MaxIdle
  /\ gap = MaxIdle

\* No client operation is running.
Idle == \A t \in Tasks : pc[t] = "idle"

\* The public methods of the client called one after the other, each when
\* the one before has ended: get_devices, get_all_data and the five write
\* methods.
NextClient ==
  \/ Idle /\ CallGetDevices
  \/ Idle /\ StartPoll
  \/ \E m \in WriteMethods : Idle /\ StartCommand(m)
  \/ \E t \in Tasks : Receive(t)

SpecClient == InitClient /\ [][NextClient]_vars

\* ---------------------------------------------------------------- entities

\* An entity description: its value_fn is
\* data.get(category, {}).get(field, default), with default None where the
\* source passes none.
Consumer(p, c, f, d) ==
  [platform |-> p, category |-> c, field |-> f, default |-> d]

SENSOR_DESCRIPTIONS ==
  { Consumer("sensor", "measurements", "pressure", "None"),
    Consumer("sensor", "measurements", "temperature", "None"),
    Consumer("sensor", "measurements", "hardness", "None"),
    Consumer("sensor", "measurements", "flow_rate", "None"),
    Consumer("sensor", "water_supply", "total_consumption", "None"),
    Consumer("sensor", "water_supply", "daily_consumption", "None"),
    Consumer("sensor", "selftest", "result", "None"),
    Consumer("sensor", "selftest", "last_run", "None"),
    Consumer("sensor", "leakage_protection", "last_run", "None"),
    Consumer("sensor", "state", "state", "None"),
    Consumer("sensor", "state", "error_message", "None"),
    Consumer("sensor", "statistics", "weekly_consumption", "None"),
    Consumer("sensor", "statistics", "monthly_consumption", "None") }

BINARY_SENSOR_DESCRIPTIONS ==
  { Consumer("binary_sensor", "state", "error", "False"),
    Consumer("binary_sensor", "state", "warning", "False"),
    Consumer("binary_sensor", "leakage_protection", "leakage_detected",
             "False"),
    Consumer("binary_sensor", "state", "connected", "True") }

SWITCH_DESCRIPTIONS ==
  { Consumer("switch", "absence", "active", "None"),
    Consumer("switch", "leakage_protection", "enabled", "None") }

\* The entities whose category is among the modelled ones.
Consumers ==
  { c \in SENSOR_DESCRIPTIONS \cup BINARY_SENSOR_DESCRIPTIONS
             \cup SWITCH_DESCRIPTIONS : c.category \in CategorySet }

\* value_fn of description c on the snapshot: the category's entry is the
\* endpoint's response ("data"), in which the field is present or not, or
\* the empty mapping of a failed fetch.
value_fn(c, snapshot, present) ==
  IF snapshot[c.category] = "data" /\ present THEN "value" ELSE c.default

\* native_value of a sensor and is_on of a binary sensor or switch.
is_on(c, snapshot, present) ==
  IF snapshot = NoData THEN "None" ELSE value_fn(c, snapshot, present)

\* ----------------------------------------------------------------- claims

\* The category whose fetch ended in the last step of a poll cycle.
Fetched == Categories[idx]

\* The last step ended the fetch of a category of a poll cycle.
FetchEnded ==
  /\ phase \in {"setup_refresh", "loaded"}
  /\ pc["poll"] \in InFlightPcs
  /\ ended' # NoEnd
  /\ ended'.task = "poll"

\* C1: Aggregation isolation.  When a category's fetch succeeds or ends in a
\* WatercrystApiError (of any subclass), get_all_data does not raise: it
\* stores the data, or an empty entry for the failed category, keeps the
\* entries of the other categories, and goes on with the next category; after
\* the last one the coordinator receives the mapping.
C1_AggregationIsolation ==
  [][ (FetchEnded /\ (ended'.outcome = "ok" \/ IsApiError(ended'.outcome)))
      => LET returned == IF idx < NumCat THEN result' ELSE data' IN
         /\ returned[Fetched] =
              (IF ended'.outcome = "ok" THEN "data" ELSE "empty")
         /\ \A i \in 1..(idx - 1) : returned[Categories[i]] = result[Categories[i]]
         /\ IF idx < NumCat
            THEN idx' = idx + 1 /\ pc'["poll"] = "send1"
            ELSE signal' = "ok" /\ last_update_success'
    ]_vars

\* C1 witness: a cycle returned a snapshot in which one category failed and
\* another one was fetched.
C1_Witness ==
  /\ signal = "ok"
  /\ \E c, d \in CategorySet : data[c] = "empty" /\ data[d] = "data"

\* C2: Auth retry-once, success path.  When the first response was 401, the
\* refresh (or the login it fell back to) stored a new access token and the
\* re-sent request is answered with a parsable success, the call returns
\* without error, and the re-sent request carried the token the refresh
\* stored.
C2_RetryOnceSuccess ==
  [][ \A t \in Tasks :
        ( /\ pc[t] = "send2"
          /\ call[t].yielded # NoToken
          /\ ended'.task = t
          /\ ended'.status = 200 /\ ended'.json )
        => /\ ended'.outcome = "ok"
           /\ call[t].sends = 2
           /\ call[t].refreshes = 1
           /\ call[t].hdr = call[t].yielded
    ]_vars

\* C2 witness: a command's call returned without error after a re-send.
C2_Witness ==
  /\ ended.task = "cmd"
  /\ ended.sends = 2
  /\ ended.outcome = "ok"

CycleEnded == FetchEnded /\ pc'["poll"] = "idle"

\* C4: Coordinator auth failure.  A poll cycle in which a category's fetch
\* ended in WatercrystAuthError ends with _async_update_data raising
\* ConfigEntryAuthFailed.
C4_AuthFailureSignalled ==
  [][ (CycleEnded /\ rejected') => signal' = "ConfigEntryAuthFailed" ]_vars

\* C5: Coordinator snapshot retention.  When a snapshot is cached and every
\* category fetch of the next poll cycle fails with a WatercrystApiError, the
\* cache stays as it was and the update ends with UpdateFailed.
C5_SnapshotRetained ==
  [][ ( /\ CycleEnded
        /\ data # NoData
        /\ idx = NumCat
        /\ IsApiError(ended'.outcome)
        /\ \A i \in 1..(NumCat - 1) : result[Categories[i]] = "empty" )
      => (data' = data /\ signal' = "UpdateFailed")
    ]_vars

\* C6: Connection failures are never reported as auth failures.  A client
\* operation that ends on a timeout or connection error of its HTTP request
\* (the login request of authenticate() included) ends with
\* WatercrystConnectionError.
C6_ConnectionNotAuth ==
  [][ (ended' # NoEnd /\ ended'.status = 0)
      => ended'.outcome = "WatercrystConnectionError" ]_vars

\* C7: Host outcome of a failed initial login.  A timeout or connection
\* error of the login request leads to ConfigEntryNotReady in
\* async_setup_entry and to the form error cannot_connect in the config
\* flow steps; it never leads to ConfigEntryAuthFailed or invalid_auth.
C7_LoginNetworkFailureTransient ==
  [][ (ended' # NoEnd /\ ended'.status = 0)
      => /\ phase = "setup_auth" => setup_result' = "ConfigEntryNotReady"
         /\ phase \in {"user_auth", "reauth_auth"}
              => flow_error' = "cannot_connect"
    ]_vars

\* C8: At most one HTTP request of the client is in flight.
C8_OneRequestInFlight == InFlight <= 1

\* C9: Token state is race-free.  At most one task is inside
\* refresh_access_token() (its refresh or login request pending, the tokens
\* about to be overwritten) at any time.
C9_OneRefreshAtATime == Cardinality(Refreshing) <= 1

\* C10: Throttle invariant.  Every HTTP request is issued at least the
\* minimum delay after the previous request of the client completed.
C10_Throttle == gap >= MinDelay

\* A get_all_data cycle of the coordinator is running.
InCycle == phase \in {"setup_refresh", "loaded"} /\ idx > 0

\* C12: Auth Failure is terminal for the cycle.  Once a category fetch of a
\* get_all_data cycle has ended in WatercrystAuthError, no HTTP request of
\* that cycle (category fetch, token refresh or login) is in flight any more.
C12_AuthFailureEndsCycle ==
  (InCycle /\ rejected) => pc["poll"] \notin InFlightPcs

\* C13: Fixed sequential fetch order.  At every point of a get_all_data
\* cycle the category requests issued so far are the leading entries of the
\* endpoints dict in its order (state first, statistics last), whatever the
\* earlier fetches ended with, and the request of a category is issued only
\* when every category before it has its entry, data or empty, and no later
\* category has one.
C13_FixedSequentialOrder ==
  InCycle =>
    /\ issued = SubSeq(Categories, 1, idx)
    /\ Categories[1] = "state"
    /\ Categories[NumCat] = "statistics"
    /\ \A i \in 1..NumCat :
         result[Categories[i]] = "unset" <=> i >= idx

\* C13 witness: the request of the last category is in flight after the
\* fetch of the first one failed.
C13_Witness ==
  /\ InCycle
  /\ idx = NumCat
  /\ issued = Categories
  /\ result[Categories[1]] = "empty"
  /\ pc["poll"] = "send1"

\* C14: No retry except for auth.  A request whose first response is a
\* failure other than 401 (a timeout, a connection error, or an error status)
\* ends its _request call at once: it was sent once, no token was touched
\* and no refresh, login or re-send follows.  Only a call whose first
\* response was 401 ever refreshes or re-sends, and the login and refresh
\* requests themselves are never sent again by the step that handles their
\* response.
C14_NoRetryExceptAuth ==
  [][ \A t \in Tasks :
        /\ (call'[t].refreshes > 0 \/ call'[t].sends > 1)
             => call'[t].first = 401
        /\ ( /\ pc[t] = "send1"
             /\ ended'.task = t
             /\ ended'.outcome \in
                  {"WatercrystApiError", "WatercrystConnectionError"} )
           => /\ ended'.sends = 1
              /\ call[t].refreshes = 0
              /\ pc'[t] \notin {"refresh", "login", "send2"}
              /\ access_token' = access_token
              /\ refresh_token' = refresh_token
        /\ (reply'.task = t /\ reply'.kind = "login")
             => pc'[t] \notin {"login", "refresh"}
        /\ (reply'.task = t /\ reply'.kind = "refresh")
             => pc'[t] # "refresh"
    ]_vars

\* C14 witness: a request answered with status 500 ended its call after one
\* send.
C14_Witness ==
  /\ ended.task = "poll"
  /\ ended.status = 500
  /\ ended.sends = 1
  /\ ended.outcome = "WatercrystApiError"

\* C15: 403 is handled as an Auth Failure like 401.  No _request call with
\* auth_required ends in WatercrystAuthError on the response to its first
\* send: a refresh is attempted before an Auth Failure reaches the caller.
C15_RefreshBeforeAuthFailure ==
  [][ \A t \in Tasks :
        (pc[t] = "send1" /\ ended'.task = t)
          => ended'.outcome # "WatercrystAuthError"
    ]_vars

\* C16: Not-Found retirement.  Once get_statistics of a client instance has
\* been answered 404, no later poll cycle of that instance sends a request
\* to the statistics endpoint.
C16_NotFoundRetires ==
  (InCycle /\ not_found /\ Categories[idx] = "statistics")
    => pc["poll"] \notin {"send1", "send2"}

C18_TokenReplacement ==
  [][ (reply'.kind = "refresh" /\ reply'.outcome = "ok")
      => /\ access_token' = reply'.access
         /\ refresh_token' =
              (IF reply'.refresh \in Tokens THEN reply'.refresh
               ELSE refresh_token)
         /\ refresh_token' # NoToken
    ]_vars

\* C19: Login result.  authenticate() returns True only after a login
\* response that parsed and held an access token, and then the client holds
\* that response's access token and its refresh token (none if it had
\* none); a login response without an access token ends authenticate() with
\* WatercrystAuthError.
C19_LoginResult ==
  [][ \A t \in Tasks :
        (reply'.task = t /\ reply'.kind = "login")
        => LET returned ==
                 \/ ended'.task = t /\ ended'.outcome = "ok"
                 \/ ended' = NoEnd /\ pc'[t] = "send2"
           IN
           /\ returned
                => /\ reply'.outcome = "ok"
                   /\ reply'.access \in Tokens
                   /\ access_token' = reply'.access
                   /\ refresh_token' =
                        (IF reply'.refresh \in Tokens THEN reply'.refresh
                         ELSE NoToken)
           /\ (reply'.outcome = "ok" /\ reply'.access = NoToken)
                => /\ ended'.task = t
                   /\ ended'.outcome = "WatercrystAuthError"
    ]_vars

\* C19 witness: authenticate() returned True on a response with an access
\* token and no refresh token.
C19_Witness ==
  /\ reply.kind = "login"
  /\ reply.refresh = NoKey
  /\ ended.outcome = "ok"
  /\ access_token \in Tokens
  /\ access_token = reply.access
  /\ refresh_token = NoToken

\* C20: Writes trigger a refresh.  The handler of a switch or button whose
\* write returned without error has called async_request_refresh() exactly
\* once when it ends; no call is made while the write is in progress, and
\* no step other than the successful end of a write makes one.
C20_WriteThenRefresh ==
  [][ /\ (ended'.task = "cmd" /\ ended'.outcome = "ok")
           => refresh_requests' = 1
      /\ pc'["cmd"] \in InFlightPcs => refresh_requests' = 0
      /\ refresh_requests' > refresh_requests
           => /\ ended'.task = "cmd"
              /\ ended'.outcome = "ok"
              /\ pc["cmd"] \in {"send1", "send2"}
              /\ pc'["cmd"] = "idle"
    ]_vars

\* C20 witness: a write that needed a re-send returned and the refresh was
\* requested once.
C20_Witness ==
  /\ ended.task = "cmd"
  /\ ended.outcome = "ok"
  /\ ended.sends = 2
  /\ refresh_requests = 1
  /\ command = "none"

\* C21 as stated: every call of a write method ends having sent exactly one
\* POST request.
C21_ExactlyOneWrite ==
  [][ ended'.task = "cmd" => ended'.sends = 1 ]_vars

\* C21: Commands are single writes.  A call of set_absence,
\* set_leakage_protection, start_selftest, acknowledge_event or
\* set_water_supply_params makes one _request call: every request it has in
\* flight is a POST to the method's own endpoint, never a GET; the request is
\* sent once, and a second time only after a first answer of 401 and a call
\* of refresh_access_token(); and no step of the call changes the cached
\* snapshot, which only the end of a get_all_data cycle replaces.
C21_SingleWrite ==
  [][ /\ pc'["cmd"] \in {"send1", "send2"}
           => /\ call'["cmd"].method = "POST"
              /\ <<command', call'["cmd"].endpoint>> \in
                   { <<"set_absence", "/absence">>,
                     <<"set_leakage_protection", "/leakageprotection">>,
                     <<"start_selftest", "/selftest">>,
                     <<"acknowledge_event", "/ackevent">>,
                     <<"set_water_supply_params", "/watersupply">> }
      /\ ended'.task = "cmd"
           => /\ ended'.sends \in {1, 2}
              /\ ended'.sends = 2
                   => call["cmd"].first = 401 /\ call["cmd"].refreshes = 1
      /\ (pc["cmd"] # "idle" \/ pc'["cmd"] # "idle") => data' = data
      /\ data' # data => (pc["poll"] \in InFlightPcs /\ pc'["poll"] = "idle")
    ]_vars

\* C21 witness: a set_water_supply_params call, the one write method after
\* which no refresh is requested, returned after its POST was sent twice.
C21_Witness ==
  /\ ended.task = "cmd"
  /\ ended.outcome = "ok"
  /\ ended.sends = 2
  /\ refresh_requests = 0
  /\ command = "none"

\* C22: Missing data reads as unknown.  For a stored snapshot in which an
\* entity's category is the empty mapping, or the response lacks the
\* entity's field, the value of the entity (native_value of a sensor, is_on
\* of a binary sensor or switch) is None.
C22_MissingReadsUnknown ==
  \A c \in Consumers : \A present \in BOOLEAN :
    (data # NoData /\ (data[c.category] = "empty" \/ ~present))
      => is_on(c, data, present) = "None"

\* C23: Device identity is set once.  On one client, a device id that is set
\* is changed by no later step (get_devices call, poll cycle or command), and
\* the only step that changes the id is the end of a get_devices() call that
\* returned on a client without one.
C23_DeviceIdSetOnce ==
  [][ /\ device_id # 0 => device_id' = device_id
      /\ device_id' # device_id
           => /\ device_id = 0
              /\ phase = "devices_call"
              /\ ended'.task = "poll"
              /\ ended'.outcome = "ok"
    ]_vars

\* C23 witness: on the client that holds the id of another device than the
\* one listed first, a get_devices() call returned (the last poll cycle had
\* failed, so the operation that ended without error is no cycle).
C23_Witness ==
  /\ device_id = 2
  /\ phase = "loaded"
  /\ pc["poll"] = "idle"
  /\ ended.task = "poll"
  /\ ended.outcome = "ok"
  /\ ~last_update_success

\* C24: Response classification by status.  A _request call that ends on the
\* response to its request ends by the status alone: WatercrystAuthError for
\* 401 and 403, an error type of its own for 429 (Rate Limited) and for 404
\* (Not Found), the generic WatercrystApiError for every other status of 400
\* or more, and the parsed result for a status below 400 (of a JSON body;
\* the other bodies are the subject of C25).
C24_ClassifiedByStatus ==
  [][ \A t \in Tasks :
        (pc[t] \in {"send1", "send2"} /\ ended'.task = t /\ ended'.status # 0)
          => /\ ended'.status \in {401, 403}
                  => ended'.outcome = "WatercrystAuthError"
             /\ ended'.status \in {404, 429}
                  => ended'.outcome \notin
                       ApiErrors \cup {"ok", "ContentTypeError"}
             /\ (ended'.status >= 400
                   /\ ended'.status \notin {401, 403, 404, 429})
                  => ended'.outcome = "WatercrystApiError"
             /\ (ended'.status < 400 /\ ended'.json)
                  => ended'.outcome = "ok"
    ]_vars

\* C25: Body parsing.  A _request call whose request is answered with a
\* status below 400 returns a result whatever the body is (null for no
\* content, a number for bare numeric text, the raw text for other text, the
\* parsed value for a JSON body): it never ends in an error.
C25_EveryBodyYieldsResult ==
  [][ \A t \in Tasks :
        (pc[t] \in {"send1", "send2"} /\ ended'.task = t
           /\ ended'.status # 0 /\ ended'.status < 400)
          => ended'.outcome = "ok"
    ]_vars

\* C26: Credentials are validated before they are stored.  async_step_user
\* creates the entry only in the step in which get_devices() returned, which
\* it calls only after authenticate() returned with an access token;
\* async_step_reauth_confirm updates and reloads the entry only when
\* authenticate() returned.  When the validation of either step ends in an
\* exception, the form is shown again with one of the error keys, and no
\* entry is created or updated.
C26_ValidatedBeforeStored ==
  [][ /\ (phase \in {"user_form", "user_auth", "user_devices"}
            /\ phase' = "entry")
           => /\ phase = "user_devices"
              /\ ended'.outcome = "ok"
              /\ flow_error' = "none"
      /\ (phase = "user_auth" /\ phase' = "user_devices")
           => /\ reply'.kind = "login"
              /\ reply'.outcome = "ok"
              /\ reply'.access \in Tokens
      /\ (phase \in {"user_auth", "user_devices"} /\ ended' # NoEnd
            /\ phase' \notin {"user_devices", "entry"})
           => /\ phase' = "user_form"
              /\ flow_error' \in {"invalid_auth", "cannot_connect", "unknown"}
              /\ entry_device' = entry_device
      /\ (phase = "reauth_auth" /\ ended' # NoEnd)
           => IF setup_result' # setup_result
              THEN /\ reply'.outcome = "ok"
                   /\ reply'.access \in Tokens
                   /\ setup_result' = "none"
                   /\ flow_error' = "none"
              ELSE /\ ended'.outcome # "ok"
                   /\ flow_error' \in
                        {"invalid_auth", "cannot_connect", "unknown"}
    ]_vars

\* C26 witness: the reauth form is shown again with "unknown" after a login
\* that was answered 200 with a body that is not JSON; the entry still waits
\* for new credentials.
C26_Witness ==
  /\ phase = "entry"
  /\ setup_result = "ConfigEntryAuthFailed"
  /\ flow_error = "unknown"
  /\ ended.outcome = "ContentTypeError"
  /\ reply.kind = "login"

\* C27: Flattened snapshot.  A stored snapshot whose "state" entry is the
\* endpoint's response has the fields derived from that response as keys of
\* its own: mode_name, online, leakage_detected, error and warning.
C27_FlattenedKeys ==
  (data # NoData /\ data["state"] = "data")
    => {"mode_name", "online", "leakage_detected", "error", "warning"}
         \subseteq DOMAIN data

\* C28: Bounded work.  A _request call hands at most four HTTP requests to
\* the session (the request, the refresh request, the fallback login and the
\* re-send), a direct authenticate() one; the answer to a refresh or login
\* request starts no refresh of its own: a refresh request follows only the
\* first send, a login request only the first send, the refresh request or
\* the start of authenticate().  A get_all_data cycle makes one _request
\* call per category, one after the other, so it issues at most four
\* requests per category (28 for the seven categories).
C28_BoundedWork ==
  [][ /\ \A t \in Tasks :
           /\ call'[t].requests <= 4
           /\ call'[t].sends = 0 => call'[t].requests <= 1
           /\ call'[t].requests >= call'[t].sends
           /\ pc'[t] \in {"refresh", "login"}
                => /\ call'[t].requests = call[t].requests + 1
                   /\ pc[t] \in {"idle", "send1", "refresh"}
                   /\ pc[t] = "refresh" => pc'[t] = "login"
      /\ InCycle'
           => /\ Len(issued') = idx'
              /\ idx' <= NumCat
              /\ 4 * (idx' - 1) + call'["poll"].requests <= 4 * NumCat
    ]_vars

\* C28 witness: the re-send of a category's request is in flight as the
\* fourth HTTP request of its _request call.
C28_Witness ==
  /\ InCycle
  /\ pc["poll"] = "send2"
  /\ call["poll"].requests = 4
  /\ idx = NumCat

\* C29: Snapshot shape.  Whenever get_all_data returns, the mapping it
\* returns has an entry for each category of the endpoints dict and for
\* nothing else, and each entry is the endpoint's response or the empty
\* mapping; the entry of the category fetched last is the one its fetch
\* ended with.
C29_SnapshotShape ==
  [][ (CycleEnded /\ signal' = "ok")
        => /\ { c \in DOMAIN data' : data'[c] # "unset" } = CategorySet
           /\ CategorySet \subseteq
                {"state", "measurements", "absence", "leakage_protection",
                 "selftest", "water_supply", "statistics"}
           /\ Cardinality(CategorySet) = NumCat
           /\ \A c \in CategorySet : data'[c] \in {"data", "empty"}
           /\ data'[Fetched] = "data" <=> ended'.outcome = "ok"
    ]_vars

\* C29 witness: a cycle in which the fetch of every category failed returned
\* a snapshot that has the empty mapping for each of them.
C29_Witness ==
  /\ signal = "ok"
  /\ ended.task = "poll"
  /\ IsApiError(ended.outcome)
  /\ idx = 0
  /\ \A c \in CategorySet : data[c] = "empty"

\* C30: A failed login leaves the session unchanged.  When authenticate()
\* ends in WatercrystAuthError (the login was rejected, its request failed,
\* or its response had no access token), the stored access token and
\* refresh token are what they were before the login response was handled.
C30_FailedLoginKeepsTokens ==
  [][ \A t \in Tasks :
        (pc[t] = "login" /\ ended'.task = t
           /\ ended'.outcome = "WatercrystAuthError")
          => /\ access_token' = access_token
             /\ refresh_token' = refresh_token
    ]_vars

\* C31: A reported refresh means a usable token.  When
\* refresh_access_token() returns True, by the refresh request or by the
\* fallback login, and _request re-sends the request, the client holds an
\* access token and the Authorization header of the re-sent request is built
\* from it.
C31_RefreshYieldsToken ==
  [][ \A t \in Tasks :
        (pc[t] \in {"refresh", "login"} /\ pc'[t] = "send2")
          => /\ access_token' \in Tokens
             /\ call'[t].hdr = access_token'
    ]_vars

\* C32: Token state changes only on 401.  Every step of a client in use that
\* changes the access token or the refresh token handles the answer to the
\* refresh or login request of a _request call whose authenticated request
\* was answered 401; the step that ends a call on the answer to its first
\* send (a success, any other status, 403 included, a timeout or a
\* connection error) changes neither.  So a call, and a poll cycle, without
\* a 401 leaves both tokens as they were.
C32_TokensChangeOnlyOn401 ==
  [][ /\ (access_token' # access_token \/ refresh_token' # refresh_token)
           => \E t \in Tasks :
                /\ pc[t] \in {"refresh", "login"}
                /\ reply'.task = t
                /\ call[t].sends = 1
                /\ call[t].first = 401
      /\ \A t \in Tasks :
           (pc[t] = "send1" /\ ended'.task = t)
             => /\ ended'.status # 401
                /\ access_token' = access_token
                /\ refresh_token' = refresh_token
    ]_vars

\* C32 witness: a command whose POST was answered 403 ended after one send
\* on a client that holds both tokens.
C32_Witness ==
  /\ ended.task = "cmd"
  /\ ended.status = 403
  /\ ended.sends = 1
  /\ ended.outcome = "WatercrystAuthError"
  /\ access_token \in Tokens
  /\ refresh_token \in Tokens

\* C33: A failed command is contained.  When the client method called by
\* the handler of a switch or button ends in a WatercrystApiError (of any
\* subclass), no exception leaves the handler, async_request_refresh() is not
\* called, and the step changes neither the cached snapshot nor the value
\* any entity reads from it.
C33_FailedCommandContained ==
  [][ (ended'.task = "cmd" /\ command \in Commands
         /\ IsApiError(ended'.outcome))
        => /\ ended'.raised = "none"
           /\ refresh_requests' = 0
           /\ data' = data
           /\ \A c \in Consumers : \A present \in BOOLEAN :
                is_on(c, data', present) = is_on(c, data, present)
    ]_vars

\* C33 witness: the command of a switch or button ended in a connection
\* error that was caught by its handler, and no refresh was requested.
C33_Witness ==
  /\ ended.task = "cmd"
  /\ ended.outcome = "WatercrystConnectionError"
  /\ ended.raised = "none"
  /\ refresh_requests = 0
  /\ command = "none"
  /\ pc["cmd"] = "idle"

\* C34: Polling always has a device.  Whenever async_setup_entry has
\* returned True, the client holds a device id, and every request of a poll
\* cycle of the entry that is set up, the first refresh included, is made
\* with one.
C34_SetupHasDevice ==
  /\ setup_result = "True" => device_id # 0
  /\ InCycle => device_id # 0

====
